---- MODULE Spec2Model ----
(***************************************************************************)
(* maf_intersect.py: intersect or merge two MAF files on the composite key *)
(* (Chromosome, int(Start_Position), Tumor_Seq_Allele1).                   *)
(*                                                                         *)
(* A Python 2 str is modelled as the sequence of its byte codes, so that   *)
(* rstrip/split, int() and the lexicographic str comparison are computed   *)
(* and not assumed.  A file is the sequence of its lines.                  *)
(***************************************************************************)
EXTENDS Integers, Sequences, FiniteSets, TLC

VARIABLES input_maf_1, input_maf_2, is_merging,
          maf_rows_1, maf_rows_2, row_dict_1, row_dict_2, output_maf, pc

vars == <<input_maf_1, input_maf_2, is_merging,
          maf_rows_1, maf_rows_2, row_dict_1, row_dict_2, output_maf, pc>>

(***************************************************************************)
(* Bounds of the model                                                     *)
(***************************************************************************)
\* longest body (lines besides the header) of a file given in key order
MaxLen == 3
\* longest body of a file given in arbitrary order
MaxRawLen == 3

(***************************************************************************)
(* Python str primitives                                                   *)
(***************************************************************************)
TAB == 9
NEWLINE == 10

Min(a, b) == IF a < b THEN a ELSE b

\* str.__lt__ : byte-wise lexicographic, a proper prefix is smaller
StrLess(s, t) ==
    \E i \in 1..Len(t) :
        /\ \A j \in 1..(i-1) : j <= Len(s) /\ s[j] = t[j]
        /\ (i > Len(s) \/ s[i] < t[i])

StrGreater(s, t) == StrLess(t, s)

\* int(str) raises ValueError unless the text is a decimal literal: here a
\* non-empty run of digits (the inputs of this model carry no sign and no
\* surrounding blanks)
IsIntLiteral(s) == Len(s) > 0 /\ \A i \in 1..Len(s) : s[i] \in 48..57

\* int(str) of a run of decimal digits (the inputs of this model carry no
\* sign and no surrounding blanks)
RECURSIVE int(_)
int(s) == IF s = <<>> THEN 0
          ELSE 10 * int(SubSeq(s, 1, Len(s) - 1)) + (s[Len(s)] - 48)

\* row.rstrip('\n')
RECURSIVE rstrip(_)
rstrip(row) == IF row # <<>> /\ row[Len(row)] = NEWLINE
               THEN rstrip(SubSeq(row, 1, Len(row) - 1))
               ELSE row

\* s.split('\t')
RECURSIVE split(_)
split(s) ==
    IF \A i \in 1..Len(s) : s[i] # TAB THEN <<s>>
    ELSE LET i == CHOOSE k \in 1..Len(s) :
                      s[k] = TAB /\ \A j \in 1..(k-1) : s[j] # TAB
         IN  <<SubSeq(s, 1, i - 1)>> \o split(SubSeq(s, i + 1, Len(s)))

(***************************************************************************)
(* The MAF schema and the parser                                           *)
(***************************************************************************)
MAF_FIELDNAMES == <<
    "Hugo_Symbol", "Entrez_Gene_Id", "Center", "NCBI_Build",
    "Chromosome", "Start_Position", "End_Position", "Strand",
    "Variant_Classification", "Variant_Type", "Reference_Allele",
    "Tumor_Seq_Allele1", "Tumor_Seq_Allele2", "dbSNP_RS",
    "dbSNP_Val_Status", "Tumor_Sample_Barcode",
    "Matched_Norm_Sample_Barcode", "Match_Norm_Seq_Allele1",
    "Match_Norm_Seq_Allele2", "Tumor_Validation_Allele1",
    "Tumor_Validation_Allele2", "Match_Norm_Validation_Allele1",
    "Match_Norm_Validation_Allele2", "Verification_Status",
    "Validation_Status", "Mutation_Status", "Sequencing_Phase",
    "Sequence_Source", "Validation_Method", "Score", "BAM_File",
    "Sequencer", "Tumor_Sample_UUID", "Matched_Norm_Sample_UUID",
    "Annotation_Transcript", "Transcript_Position", "cDNA_Change",
    "Protein_Change", "effect", "categ" >>

\* the bytes of 'Hugo_Symbol'
HUGO_SYMBOL == <<72, 117, 103, 111, 95, 83, 121, 109, 98, 111, 108>>

\* dict(zip(MAF_FIELDNAMES, row_items)) plus the key 'row'
parse_maf_row(row) ==
    LET row_items == split(rstrip(row))
        n == Min(Len(MAF_FIELDNAMES), Len(row_items))
    IN  [k \in {MAF_FIELDNAMES[i] : i \in 1..n} \cup {"row"} |->
            IF k = "row" THEN row
            ELSE row_items[CHOOSE i \in 1..n : MAF_FIELDNAMES[i] = k]]

\* the column-by-column reconstruction the source keeps commented out: every
\* column followed by a tab, then a newline
recreate_from_columns(row_dict) ==
    LET RECURSIVE cols(_)
        cols(i) == IF i > Len(MAF_FIELDNAMES)
                      \/ MAF_FIELDNAMES[i] \notin DOMAIN row_dict
                   THEN <<NEWLINE>>
                   ELSE row_dict[MAF_FIELDNAMES[i]] \o <<TAB>> \o cols(i + 1)
    IN  cols(1)

recreate_maf_row(row_dict) == row_dict["row"]

\* the exception raised by the field accesses and int() calls of one pass
\* through a comparison on (Chromosome, int(Start_Position),
\* Tumor_Seq_Allele1) in the order the source evaluates them, or "none":
\* a missing key raises KeyError, int() of a non-literal raises ValueError,
\* and a later field is looked at only when the earlier ones are equal
key_chain_exc(r1, r2) ==
    IF "Chromosome" \notin DOMAIN r1 \/ "Chromosome" \notin DOMAIN r2
    THEN "KeyError"
    ELSE IF r1["Chromosome"] # r2["Chromosome"] THEN "none"
    ELSE IF "Start_Position" \notin DOMAIN r1 THEN "KeyError"
    ELSE IF ~IsIntLiteral(r1["Start_Position"]) THEN "ValueError"
    ELSE IF "Start_Position" \notin DOMAIN r2 THEN "KeyError"
    ELSE IF ~IsIntLiteral(r2["Start_Position"]) THEN "ValueError"
    ELSE IF int(r1["Start_Position"]) # int(r2["Start_Position"]) THEN "none"
    ELSE IF "Tumor_Seq_Allele1" \notin DOMAIN r1
            \/ "Tumor_Seq_Allele1" \notin DOMAIN r2
    THEN "KeyError"
    ELSE "none"

\* what a call of compare_maf_rows raises
compare_exc(r1, r2) == key_chain_exc(r1, r2)

\* the comparator handed to sorted(); the third test repeats the '>' of the
\* second, as the source does
compare_maf_rows(r1, r2) ==
    IF StrGreater(r1["Chromosome"], r2["Chromosome"]) THEN 1
    ELSE IF StrLess(r1["Chromosome"], r2["Chromosome"]) THEN -1
    ELSE IF int(r1["Start_Position"]) > int(r2["Start_Position"]) THEN 1
    ELSE IF int(r1["Start_Position"]) < int(r2["Start_Position"]) THEN -1
    ELSE IF StrGreater(r1["Tumor_Seq_Allele1"], r2["Tumor_Seq_Allele1"]) THEN 1
    ELSE IF StrGreater(r1["Tumor_Seq_Allele1"], r2["Tumor_Seq_Allele1"]) THEN -1
    ELSE 0

\* list.sort's only question to a cmp function: cmp(x, y) < 0
ISLT(x, y) == compare_maf_rows(x, y) < 0

\* one such question: "lt", "ge", or the exception the comparator raises
islt(x, y) == IF compare_exc(x, y) # "none" THEN compare_exc(x, y)
              ELSE IF ISLT(x, y) THEN "lt" ELSE "ge"

\* list.sort on fewer than 64 elements: count_run finds the run the list
\* starts with (reversed if it is strictly descending) and binarysort
\* inserts the rest.  Every result is [list, exc]; exc is "none" or the
\* exception of the first comparison that raised.
RECURSIVE run_len(_, _, _)
run_len(a, i, descending) ==
    IF i > Len(a) THEN [n |-> i - 1, exc |-> "none"]
    ELSE LET c == islt(a[i], a[i - 1])
         IN  IF c \notin {"lt", "ge"} THEN [n |-> i - 1, exc |-> c]
             ELSE IF (c = "lt") = descending THEN run_len(a, i + 1, descending)
             ELSE [n |-> i - 1, exc |-> "none"]

count_run(a) ==
    IF Len(a) < 2 THEN [n |-> Len(a), descending |-> FALSE, exc |-> "none"]
    ELSE LET c == islt(a[2], a[1])
         IN  IF c \notin {"lt", "ge"}
             THEN [n |-> 1, descending |-> FALSE, exc |-> c]
             ELSE [n |-> run_len(a, 3, c = "lt").n,
                   descending |-> (c = "lt"),
                   exc |-> run_len(a, 3, c = "lt").exc]

\* the binary search of binarysort for pivot in a[1..r], offsets from 0
RECURSIVE bsearch(_, _, _, _)
bsearch(a, pivot, l, r) ==
    LET p == l + ((r - l) \div 2)
        c == islt(pivot, a[p + 1])
    IN  IF c \notin {"lt", "ge"} THEN [pos |-> l, exc |-> c]
        ELSE LET l2 == IF c = "lt" THEN l ELSE p + 1
                 r2 == IF c = "lt" THEN p ELSE r
             IN  IF l2 < r2 THEN bsearch(a, pivot, l2, r2)
                 ELSE [pos |-> l2, exc |-> "none"]

RECURSIVE binarysort(_, _)
binarysort(a, start) ==
    IF start >= Len(a) THEN [list |-> a, exc |-> "none"]
    ELSE LET pivot == a[start + 1]
             s == bsearch(a, pivot, 0, start)
         IN  IF s.exc # "none" THEN [list |-> a, exc |-> s.exc]
             ELSE binarysort(SubSeq(a, 1, s.pos) \o <<pivot>>
                               \o SubSeq(a, s.pos + 1, start)
                               \o SubSeq(a, start + 2, Len(a)),
                             start + 1)

reverse_slice(a, n) ==
    [i \in 1..Len(a) |-> IF i <= n THEN a[n + 1 - i] ELSE a[i]]

list_sort(a) ==
    LET run == count_run(a)
    IN  IF run.exc # "none" THEN [list |-> a, exc |-> run.exc]
        ELSE binarysort(IF run.descending THEN reverse_slice(a, run.n) ELSE a,
                        run.n)

\* sorted(rows, cmp=compare_maf_rows): the list it returns, and what it raises
sorted(rows) == list_sort(rows).list
sorted_exc(rows) == list_sort(rows).exc

map_parse(lines) == [i \in 1..Len(lines) |-> parse_maf_row(lines[i])]

(***************************************************************************)
(* maf_row_generator: a generator over the sorted list; its state is the   *)
(* part of the list it has not looked at yet                               *)
(***************************************************************************)
None == [None |-> TRUE]

RECURSIVE gen_skip(_)
gen_skip(rows) == IF rows # <<>> /\ Head(rows)["Hugo_Symbol"] = HUGO_SYMBOL
                  THEN gen_skip(Tail(rows))
                  ELSE rows

\* next(gen, None)
gen_next(rows) == IF gen_skip(rows) = <<>> THEN None ELSE Head(gen_skip(rows))
gen_rest(rows) == IF gen_skip(rows) = <<>> THEN <<>> ELSE Tail(gen_skip(rows))

(***************************************************************************)
(* The comparison chain of the main loop.  Branch names the arm of the     *)
(* nested if/else that the pair of current rows selects; written, adv1 and *)
(* adv2 are what that arm does.                                            *)
(***************************************************************************)
\* what the field accesses and int() calls of lines 75-79 raise
Branch_exc(r1, r2) == key_chain_exc(r1, r2)

Branches == {"equal", "allele_gt", "allele_else", "pos_gt", "pos_else",
             "chr_gt", "chr_else"}

\* the chain with the position test of line 95 turned around
Branch_position_flipped(r1, r2) ==
    IF r1["Chromosome"] = r2["Chromosome"]
    THEN IF int(r1["Start_Position"]) = int(r2["Start_Position"])
         THEN IF r1["Tumor_Seq_Allele1"] = r2["Tumor_Seq_Allele1"]
              THEN "equal"
              ELSE IF StrGreater(r1["Tumor_Seq_Allele1"],
                                 r2["Tumor_Seq_Allele1"])
                   THEN "allele_gt"
                   ELSE "allele_else"
         ELSE IF int(r1["Start_Position"]) < int(r2["Start_Position"])
              THEN "pos_gt"
              ELSE "pos_else"
    ELSE IF StrGreater(r1["Chromosome"], r2["Chromosome"])
         THEN "chr_gt"
         ELSE "chr_else"

Branch(r1, r2) ==
    IF r1["Chromosome"] = r2["Chromosome"]
    THEN IF int(r1["Start_Position"]) = int(r2["Start_Position"])
         THEN IF r1["Tumor_Seq_Allele1"] = r2["Tumor_Seq_Allele1"]
              THEN "equal"
              ELSE IF StrGreater(r1["Tumor_Seq_Allele1"],
                                 r2["Tumor_Seq_Allele1"])
                   THEN "allele_gt"
                   ELSE "allele_else"
         ELSE IF int(r1["Start_Position"]) > int(r2["Start_Position"])
              THEN "pos_gt"
              ELSE "pos_else"
    ELSE IF StrGreater(r1["Chromosome"], r2["Chromosome"])
         THEN "chr_gt"
         ELSE "chr_else"

\* the write of line 103 without its 'if is_merging'
emits_unguarded(b, merging) == b = "equal" \/ merging \/ b = "pos_else"

\* does the arm call output_maf.write
emits(b, merging) == b = "equal" \/ merging

\* the equal arm handing side 2's row to recreate_maf_row
written_equal_side2(b, r1, r2) ==
    CASE b = "equal"       -> r2
      [] b = "allele_gt"   -> r2
      [] b = "allele_else" -> r2
      [] b = "pos_gt"      -> r2
      [] b = "pos_else"    -> r1
      [] b = "chr_gt"      -> r2
      [] b = "chr_else"    -> r1

\* the row the arm hands to recreate_maf_row
written(b, r1, r2) ==
    CASE b = "equal"       -> r1
      [] b = "allele_gt"   -> r2
      [] b = "allele_else" -> r2
      [] b = "pos_gt"      -> r2
      [] b = "pos_else"    -> r1
      [] b = "chr_gt"      -> r2
      [] b = "chr_else"    -> r1

\* the last arm without its next() of line 113
adv1_no_chr_else(b) == b \in {"equal", "allele_else", "pos_else"}

\* the arm executes row_dict_1 = next(maf_rows_1, None)
adv1(b) == b \in {"equal", "allele_else", "pos_else", "chr_else"}

\* the else arm of the allele test advancing cursor 2 as well
adv2_allele_else(b) ==
    b \in {"equal", "allele_gt", "allele_else", "pos_gt", "chr_gt"}

\* the arm executes row_dict_2 = next(maf_rows_2, None)
adv2(b) == b \in {"equal", "allele_gt", "pos_gt", "chr_gt"}

\* the drain entered without the test of is_merging at line 116
after_loop_always_drains(merging, r1, r2) ==
    IF r1 = None /\ r2 = None THEN "close"
    ELSE IF r1 = None /\ r2 # None THEN "drain2"
    ELSE IF r1 # None /\ r2 = None THEN "drain1"
    ELSE "close"

\* where control goes when the while condition fails (lines 116-124)
after_loop(merging, r1, r2) ==
    IF ~merging THEN "close"
    ELSE IF r1 = None /\ r2 = None THEN "close"
    ELSE IF r1 = None /\ r2 # None THEN "drain2"
    ELSE IF r1 # None /\ r2 = None THEN "drain1"
    ELSE "close"

(***************************************************************************)
(* The while loop and the drain of main() as a function of the two cursors *)
(* and generators: the lines it writes.  Used to run main() on other       *)
(* inputs than those of the current behaviour.                             *)
(***************************************************************************)
RECURSIVE gen_all(_)
gen_all(rows) == IF gen_next(rows) = None THEN <<>>
                 ELSE <<gen_next(rows)>> \o gen_all(gen_rest(rows))

RowsOf(dicts) == [i \in 1..Len(dicts) |-> recreate_maf_row(dicts[i])]

RECURSIVE main_loop(_, _, _, _, _)
main_loop(r1, rows1, r2, rows2, merging) ==
    IF r1 # None /\ r2 # None
    THEN LET b == Branch(r1, r2)
         IN  (IF emits(b, merging)
              THEN <<recreate_maf_row(written(b, r1, r2))>>
              ELSE <<>>)
             \o main_loop(IF adv1(b) THEN gen_next(rows1) ELSE r1,
                          IF adv1(b) THEN gen_rest(rows1) ELSE rows1,
                          IF adv2(b) THEN gen_next(rows2) ELSE r2,
                          IF adv2(b) THEN gen_rest(rows2) ELSE rows2,
                          merging)
    ELSE IF after_loop(merging, r1, r2) = "drain2" THEN RowsOf(gen_all(rows2))
    ELSE IF after_loop(merging, r1, r2) = "drain1" THEN RowsOf(gen_all(rows1))
    ELSE <<>>

\* the pairs of current rows the while condition of line 74 sees, in order
RECURSIVE cursor_trace(_, _, _, _)
cursor_trace(r1, rows1, r2, rows2) ==
    <<<<r1, r2>>>> \o
    (IF r1 # None /\ r2 # None
     THEN LET b == Branch(r1, r2)
          IN  cursor_trace(IF adv1(b) THEN gen_next(rows1) ELSE r1,
                           IF adv1(b) THEN gen_rest(rows1) ELSE rows1,
                           IF adv2(b) THEN gen_next(rows2) ELSE r2,
                           IF adv2(b) THEN gen_rest(rows2) ELSE rows2)
     ELSE <<>>)

run_cursors(file1, file2) ==
    LET s1 == sorted(map_parse(file1))
        s2 == sorted(map_parse(file2))
    IN  cursor_trace(gen_next(s1), gen_rest(s1), gen_next(s2), gen_rest(s2))

run_main(file1, file2, merging) ==
    LET s1 == sorted(map_parse(file1))
        s2 == sorted(map_parse(file2))
    IN  main_loop(gen_next(s1), gen_rest(s1), gen_next(s2), gen_rest(s2),
                  merging)

(***************************************************************************)
(* Input files of the model                                                *)
(***************************************************************************)
Join(fields) ==
    LET RECURSIVE join(_)
        join(i) == IF i > Len(fields) THEN <<NEWLINE>>
                   ELSE IF i = 1 THEN fields[1] \o join(2)
                   ELSE <<TAB>> \o fields[i] \o join(i + 1)
    IN  join(1)

\* a data line: gene G, the given Center, Chromosome, Start_Position and
\* Tumor_Seq_Allele1, every other column up to the allele left empty
MkLine(center, chr, pos, allele) ==
    Join(<< <<71>>, <<>>, center, <<>>, chr, pos,
            <<>>, <<>>, <<>>, <<>>, <<>>, allele >>)

\* the header line, cut after the last column the program reads
Header ==
    Join(<< HUGO_SYMBOL, <<>>, <<>>, <<>>,
            <<67, 104, 114, 111, 109, 111, 115, 111, 109, 101>>,
            <<83, 116, 97, 114, 116, 95, 80, 111, 115, 105, 116, 105, 111, 110>>,
            <<>>, <<>>, <<>>, <<>>, <<>>,
            <<84, 117, 109, 111, 114, 95, 83, 101, 113, 95, 65, 108, 108,
              101, 108, 101, 49>> >>)

\* chromosomes '10' and '9' (as text '10' < '9'); positions '100', '150',
\* '200'; alleles 'A', 'C', 'T'; centers 'x', 'y' (a column outside the key)
Universe ==
    { MkLine(<<120>>, <<49, 48>>, <<49, 48, 48>>, <<65>>),
      MkLine(<<121>>, <<49, 48>>, <<49, 48, 48>>, <<65>>),
      MkLine(<<120>>, <<49, 48>>, <<49, 48, 48>>, <<67>>),
      MkLine(<<120>>, <<49, 48>>, <<49, 53, 48>>, <<84>>),
      MkLine(<<120>>, <<49, 48>>, <<50, 48, 48>>, <<67>>),
      MkLine(<<120>>, <<57>>, <<49, 48, 48>>, <<65>>) }

RawUniverse ==
    { MkLine(<<120>>, <<49, 48>>, <<49, 48, 48>>, <<65>>),
      MkLine(<<120>>, <<49, 48>>, <<49, 48, 48>>, <<67>>),
      MkLine(<<120>>, <<49, 48>>, <<50, 48, 48>>, <<67>>),
      MkLine(<<120>>, <<57>>, <<49, 48, 48>>, <<65>>) }

\* a data line cut after its first n columns
MkShortLine(center, chr, pos, n) ==
    Join(SubSeq(<< <<71>>, <<>>, center, <<>>, chr, pos >>, 1, n))

\* lines of irregular files: the header, two regular records, a record with
\* the position '1x', and lines that end after the first column, after the
\* Chromosome and after the Start_Position
ErrUniverse ==
    { Header,
      MkLine(<<120>>, <<49, 48>>, <<49, 48, 48>>, <<65>>),
      MkLine(<<120>>, <<57>>, <<49, 48, 48>>, <<65>>),
      MkLine(<<120>>, <<57>>, <<49, 120>>, <<65>>),
      MkShortLine(<<120>>, <<49, 48>>, <<49, 48, 48>>, 1),
      MkShortLine(<<120>>, <<49, 48>>, <<49, 48, 48>>, 5),
      MkShortLine(<<120>>, <<49, 48>>, <<49, 48, 48>>, 6) }

ErrUniverse2 ==
    { MkLine(<<120>>, <<49, 48>>, <<49, 48, 48>>, <<65>>),
      MkLine(<<120>>, <<57>>, <<49, 48, 48>>, <<65>>),
      MkLine(<<120>>, <<57>>, <<49, 120>>, <<65>>) }

\* the composite key of a line and the order the key is meant to have:
\* chromosome as text, position as a number, allele as text
Key(line) ==
    LET d == parse_maf_row(line)
    IN  <<d["Chromosome"], int(d["Start_Position"]), d["Tumor_Seq_Allele1"]>>

KeyLess(k1, k2) ==
    \/ StrLess(k1[1], k2[1])
    \/ /\ k1[1] = k2[1]
       /\ \/ k1[2] < k2[2]
          \/ k1[2] = k2[2] /\ StrLess(k1[3], k2[3])

SeqsUpTo(S, n) == UNION {[1..m -> S] : m \in 0..n}

Ascending(s) == \A i \in 1..(Len(s) - 1) : KeyLess(Key(s[i]), Key(s[i + 1]))

\* bodies in strictly ascending key order: sorted and free of duplicates
SortedBodies == {s \in SeqsUpTo(Universe, MaxLen) : Ascending(s)}

RawBodies == SeqsUpTo(RawUniverse, MaxRawLen)

WithHeader(h, body) == IF h THEN <<Header>> \o body ELSE body

(***************************************************************************)
(* main()                                                                  *)
(***************************************************************************)
InitRest ==
    /\ is_merging \in BOOLEAN
    /\ maf_rows_1 = <<>>
    /\ maf_rows_2 = <<>>
    /\ row_dict_1 = None
    /\ row_dict_2 = None
    /\ output_maf = <<>>
    /\ pc = "start"

\* both files hold their records in key order, each under an optional header
Init ==
    /\ \E h \in BOOLEAN, b \in SortedBodies : input_maf_1 = WithHeader(h, b)
    /\ \E h \in BOOLEAN, b \in SortedBodies : input_maf_2 = WithHeader(h, b)
    /\ InitRest

\* the first file holds its records in any order, duplicates included
InitSort ==
    /\ \E h \in BOOLEAN, b \in RawBodies : input_maf_1 = WithHeader(h, b)
    /\ \E b \in {s \in RawBodies : Ascending(s)} : input_maf_2 = b
    /\ InitRest

\* the first file holds any lines in any order, the second up to two
\* records, of which one may have a position that is no number
InitErr ==
    /\ input_maf_1 \in SeqsUpTo(ErrUniverse, MaxRawLen)
    /\ input_maf_2 \in SeqsUpTo(ErrUniverse2, 2)
    /\ InitRest

\* what lines 64-69 raise: the first file is sorted first
read_exc(file1, file2) ==
    IF sorted_exc(map_parse(file1)) # "none"
    THEN sorted_exc(map_parse(file1))
    ELSE sorted_exc(map_parse(file2))

\* lines 64-69
ReadAndSort ==
    /\ pc = "start"
    /\ read_exc(input_maf_1, input_maf_2) = "none"
    /\ maf_rows_1' = sorted(map_parse(input_maf_1))
    /\ maf_rows_2' = sorted(map_parse(input_maf_2))
    /\ pc' = "first"
    /\ UNCHANGED <<input_maf_1, input_maf_2, is_merging,
                   row_dict_1, row_dict_2, output_maf>>

\* lines 72-73
FirstRows ==
    /\ pc = "first"
    /\ row_dict_1' = gen_next(maf_rows_1)
    /\ maf_rows_1' = gen_rest(maf_rows_1)
    /\ row_dict_2' = gen_next(maf_rows_2)
    /\ maf_rows_2' = gen_rest(maf_rows_2)
    /\ pc' = "loop"
    /\ UNCHANGED <<input_maf_1, input_maf_2, is_merging, output_maf>>

\* the loop with the else arm of the allele test moving cursor 2 instead of
\* cursor 1 when merging
LoopStep_mode_dependent(b) ==
    /\ pc = "loop"
    /\ row_dict_1 # None /\ row_dict_2 # None
    /\ Branch_exc(row_dict_1, row_dict_2) = "none"
    /\ Branch(row_dict_1, row_dict_2) = b
    /\ output_maf' =
         IF emits(b, is_merging)
         THEN Append(output_maf,
                     recreate_maf_row(written(b, row_dict_1, row_dict_2)))
         ELSE output_maf
    /\ IF adv1(b) /\ ~(is_merging /\ b = "allele_else")
       THEN /\ row_dict_1' = gen_next(maf_rows_1)
            /\ maf_rows_1' = gen_rest(maf_rows_1)
       ELSE UNCHANGED <<row_dict_1, maf_rows_1>>
    /\ IF adv2(b) \/ (is_merging /\ b = "allele_else")
       THEN /\ row_dict_2' = gen_next(maf_rows_2)
            /\ maf_rows_2' = gen_rest(maf_rows_2)
       ELSE UNCHANGED <<row_dict_2, maf_rows_2>>
    /\ UNCHANGED <<input_maf_1, input_maf_2, is_merging, pc>>

\* one iteration of the while loop (lines 74-113) through the arm b
LoopStep(b) ==
    /\ pc = "loop"
    /\ row_dict_1 # None /\ row_dict_2 # None
    /\ Branch_exc(row_dict_1, row_dict_2) = "none"
    /\ Branch(row_dict_1, row_dict_2) = b
    /\ output_maf' =
         IF emits(b, is_merging)
         THEN Append(output_maf,
                     recreate_maf_row(written(b, row_dict_1, row_dict_2)))
         ELSE output_maf
    /\ IF adv1(b)
       THEN /\ row_dict_1' = gen_next(maf_rows_1)
            /\ maf_rows_1' = gen_rest(maf_rows_1)
       ELSE UNCHANGED <<row_dict_1, maf_rows_1>>
    /\ IF adv2(b)
       THEN /\ row_dict_2' = gen_next(maf_rows_2)
            /\ maf_rows_2' = gen_rest(maf_rows_2)
       ELSE UNCHANGED <<row_dict_2, maf_rows_2>>
    /\ UNCHANGED <<input_maf_1, input_maf_2, is_merging, pc>>

StepEqual == LoopStep("equal")
StepAlleleGreater == LoopStep("allele_gt")
StepAlleleElse == LoopStep("allele_else")
StepPositionGreater == LoopStep("pos_gt")
StepPositionElse == LoopStep("pos_else")
StepChromosomeGreater == LoopStep("chr_gt")
StepChromosomeElse == LoopStep("chr_else")

LoopExit ==
    /\ pc = "loop"
    /\ ~(row_dict_1 # None /\ row_dict_2 # None)
    /\ pc' = after_loop(is_merging, row_dict_1, row_dict_2)
    /\ UNCHANGED <<input_maf_1, input_maf_2, is_merging,
                   maf_rows_1, maf_rows_2, row_dict_1, row_dict_2, output_maf>>

\* lines 122-123: one iteration of 'for leftover_row in maf_rows_2'
Drain2Step ==
    /\ pc = "drain2"
    /\ gen_next(maf_rows_2) # None
    /\ output_maf' = Append(output_maf, recreate_maf_row(gen_next(maf_rows_2)))
    /\ maf_rows_2' = gen_rest(maf_rows_2)
    /\ UNCHANGED <<input_maf_1, input_maf_2, is_merging,
                   maf_rows_1, row_dict_1, row_dict_2, pc>>

\* lines 126-127: one iteration of 'for leftover_row in maf_rows_1'
Drain1Step ==
    /\ pc = "drain1"
    /\ gen_next(maf_rows_1) # None
    /\ output_maf' = Append(output_maf, recreate_maf_row(gen_next(maf_rows_1)))
    /\ maf_rows_1' = gen_rest(maf_rows_1)
    /\ UNCHANGED <<input_maf_1, input_maf_2, is_merging,
                   maf_rows_2, row_dict_1, row_dict_2, pc>>

\* the for loop finds its generator exhausted
DrainEnd ==
    /\ \/ pc = "drain2" /\ gen_next(maf_rows_2) = None
       \/ pc = "drain1" /\ gen_next(maf_rows_1) = None
    /\ maf_rows_1' = IF pc = "drain1" THEN <<>> ELSE maf_rows_1
    /\ maf_rows_2' = IF pc = "drain2" THEN <<>> ELSE maf_rows_2
    /\ pc' = "close"
    /\ UNCHANGED <<input_maf_1, input_maf_2, is_merging,
                   row_dict_1, row_dict_2, output_maf>>

\* lines 130-132
Close ==
    /\ pc = "close"
    /\ pc' = "done"
    /\ UNCHANGED <<input_maf_1, input_maf_2, is_merging,
                   maf_rows_1, maf_rows_2, row_dict_1, row_dict_2, output_maf>>

Next ==
    \/ ReadAndSort
    \/ FirstRows
    \/ StepEqual
    \/ StepAlleleGreater
    \/ StepAlleleElse
    \/ StepPositionGreater
    \/ StepPositionElse
    \/ StepChromosomeGreater
    \/ StepChromosomeElse
    \/ LoopExit
    \/ Drain2Step
    \/ Drain1Step
    \/ DrainEnd
    \/ Close

\* lines 64-69 when a comparison of the sort raises: the exception leaves
\* main() and ends the run
SortRaises ==
    /\ pc = "start"
    /\ read_exc(input_maf_1, input_maf_2) # "none"
    /\ pc' = read_exc(input_maf_1, input_maf_2)
    /\ UNCHANGED <<input_maf_1, input_maf_2, is_merging,
                   maf_rows_1, maf_rows_2, row_dict_1, row_dict_2, output_maf>>

\* lines 75-79 when a field access or int() raises
LoopRaises ==
    /\ pc = "loop"
    /\ row_dict_1 # None /\ row_dict_2 # None
    /\ Branch_exc(row_dict_1, row_dict_2) # "none"
    /\ pc' = Branch_exc(row_dict_1, row_dict_2)
    /\ UNCHANGED <<input_maf_1, input_maf_2, is_merging,
                   maf_rows_1, maf_rows_2, row_dict_1, row_dict_2, output_maf>>

NextErr ==
    \/ Next
    \/ SortRaises
    \/ LoopRaises

Spec == Init /\ [][Next]_vars

SpecSort == InitSort /\ [][Next]_vars

\* runs on irregular files
SpecErr == InitErr /\ [][NextErr]_vars

\* the steps of the merge-join engine: the loop, the drain and the end
Engine ==
    \/ StepEqual
    \/ StepAlleleGreater
    \/ StepAlleleElse
    \/ StepPositionGreater
    \/ StepPositionElse
    \/ StepChromosomeGreater
    \/ StepChromosomeElse
    \/ LoopExit
    \/ Drain2Step
    \/ Drain1Step
    \/ DrainEnd
    \/ Close

\* the runs of Spec with the engine carried to its end: main() is
\* sequential code and takes its next step whenever it has one
FairSpec == Init /\ [][Next]_vars /\ WF_vars(Engine)

TypeOK == pc \in {"start", "first", "loop", "drain1", "drain2", "close", "done",
                  "KeyError", "ValueError"}

(***************************************************************************)
(* Vocabulary of the properties                                            *)
(***************************************************************************)
IsHeader(line) == parse_maf_row(line)["Hugo_Symbol"] = HUGO_SYMBOL

\* the records of a file: its lines without the header, in file order
Records(file) == SelectSeq(file, LAMBDA l : ~IsHeader(l))

RecordsA == Records(input_maf_1)
RecordsB == Records(input_maf_2)

Range(s) == {s[i] : i \in 1..Len(s)}
Keys(s) == {Key(s[i]) : i \in 1..Len(s)}
Count(s, line) == Cardinality({i \in 1..Len(s) : s[i] = line})
CountKey(s, k) == Cardinality({i \in 1..Len(s) : Key(s[i]) = k})

NonDecreasing(s) ==
    \A i \in 1..(Len(s) - 1) : ~KeyLess(Key(s[i + 1]), Key(s[i]))

Finished == pc = "done"

(***************************************************************************)
(* Properties                                                              *)
(***************************************************************************)

\* C1: completeness of merge.  When a merge run over two sorted,
\* duplicate-free files has finished, every composite key of either file is
\* in the output exactly once and the output holds no other key.
C1_MergeComplete ==
    (Finished /\ is_merging) =>
        /\ \A k \in Keys(RecordsA) \cup Keys(RecordsB) :
               CountKey(output_maf, k) = 1
        /\ Keys(output_maf) \subseteq Keys(RecordsA) \cup Keys(RecordsB)

\* C2: merge with an empty first file writes exactly the records of the
\* second file, each once and in their order.
C2_MergeEmptyLeft ==
    (Finished /\ is_merging /\ RecordsA = <<>>) => output_maf = RecordsB

\* C3: correctness of intersect.  A finished intersect run over two sorted,
\* duplicate-free files has written each record of the first file whose key
\* occurs in the second file exactly once, and nothing else.
C3_IntersectCorrect ==
    (Finished /\ ~is_merging) =>
        /\ \A l \in Range(RecordsA) :
               Count(output_maf, l) =
                   IF Key(l) \in Keys(RecordsB) THEN 1 ELSE 0
        /\ Range(output_maf) \subseteq Range(RecordsA)

\* C3 witness: an intersect run that kept one record of the first file,
\* taken from the first file where the second spells the line differently,
\* and left another record out
C3_Witness ==
    /\ Finished /\ ~is_merging
    /\ Len(output_maf) >= 1
    /\ Len(output_maf) < Len(RecordsA)
    /\ \E l \in Range(output_maf) : l \notin Range(RecordsB)

\* C4: order preservation.  In both modes and at every point of the run the
\* lines written so far are non-decreasing in the composite key.
C4_OutputOrdered == NonDecreasing(output_maf)

\* C4 witness: a merge run that has written three lines with three
\* different keys, taken from both files
C4_Witness ==
    /\ is_merging
    /\ Len(output_maf) >= 3
    /\ Cardinality(Keys(output_maf)) >= 3
    /\ \E l \in Range(output_maf) : l \notin Range(RecordsA)
    /\ \E l \in Range(output_maf) : l \notin Range(RecordsB)

\* the sequence maf_row_generator hands to the loop, as lines
Handed(rows) == RowsOf(gen_all(rows))

\* C5: the pre-sort establishes the engine's precondition.  For input lines
\* in any order, what sorted(..., cmp=compare_maf_rows) and the generator
\* hand to the loop is ascending in the composite key, also among records
\* that differ only in the allele.
C5_PreSortAscending ==
    (pc = "first") =>
        NonDecreasing(Handed(maf_rows_1)) /\ NonDecreasing(Handed(maf_rows_2))

\* the parsed records of both input files
InputDicts ==
    {parse_maf_row(l) : l \in Range(RecordsA) \cup Range(RecordsB)}

DictKey(d) == <<d["Chromosome"], int(d["Start_Position"]),
                d["Tumor_Seq_Allele1"]>>

\* C6: compare_maf_rows is a three-way total order on composite keys: it
\* returns 0 exactly for equal keys, and 1 exactly when the swapped call
\* returns -1.
C6_CompareTotalOrder ==
    (pc # "start") => \A a, b \in InputDicts :
        /\ (compare_maf_rows(a, b) = 0) <=> (DictKey(a) = DictKey(b))
        /\ (compare_maf_rows(a, b) = 1) <=> (compare_maf_rows(b, a) = -1)

\* C7: the comparator and the comparison chain of the loop agree.  Whenever
\* the loop compares its two current rows it takes the equal arm iff the
\* comparator returns 0, an arm that advances only cursor 2 iff it returns
\* 1, and an arm that advances only cursor 1 iff it returns -1.
C7_ChainAgreesWithComparator ==
    (pc = "loop" /\ row_dict_1 # None /\ row_dict_2 # None) =>
        LET b == Branch(row_dict_1, row_dict_2)
            c == compare_maf_rows(row_dict_1, row_dict_2)
        IN  /\ (b = "equal") <=> (c = 0)
            /\ (adv2(b) /\ ~adv1(b)) <=> (c = 1)
            /\ (adv1(b) /\ ~adv2(b)) <=> (c = -1)

\* C8: idempotence of intersect.  Intersecting a sorted, duplicate-free file
\* with itself writes exactly its records, in order, each once.
C8_IntersectIdempotent ==
    (Finished /\ ~is_merging /\ RecordsA = RecordsB) => output_maf = RecordsA

\* C8 witness: a finished self-intersection of three records
C8_Witness ==
    /\ Finished /\ ~is_merging
    /\ RecordsA = RecordsB
    /\ Len(RecordsA) >= 3
    /\ Len(output_maf) >= 3

\* C9: commutativity of intersect on keys.  The keys written by an intersect
\* run equal the keys written by the run on the two files swapped.
C9_IntersectCommutes ==
    (Finished /\ ~is_merging) =>
        Keys(output_maf) = Keys(run_main(input_maf_2, input_maf_1, FALSE))

\* C9 witness: a finished intersect run of two different files that share
\* a key, each file also holding a key the other lacks
C9_Witness ==
    /\ Finished /\ ~is_merging
    /\ output_maf # <<>>
    /\ Keys(RecordsA) \ Keys(RecordsB) # {}
    /\ Keys(RecordsB) \ Keys(RecordsA) # {}

\* C10: disjoint keys.  If the two sorted files share no key, intersect
\* writes nothing and merge writes every record of both files exactly once,
\* in key order.
C10_DisjointKeys ==
    (Finished /\ Keys(RecordsA) \cap Keys(RecordsB) = {}) =>
        IF is_merging
        THEN /\ \A l \in Range(RecordsA) \cup Range(RecordsB) :
                    Count(output_maf, l) = 1
             /\ Range(output_maf) \subseteq Range(RecordsA) \cup Range(RecordsB)
             /\ NonDecreasing(output_maf)
        ELSE output_maf = <<>>

\* the loop written as a function and the loop run step by step write the
\* same lines
RunMainAgrees ==
    Finished => output_maf = run_main(input_maf_1, input_maf_2, is_merging)

Aborted == pc \in {"KeyError", "ValueError"}

InputLines == Range(input_maf_1) \cup Range(input_maf_2)

\* a line with all three key columns and a numeric position
Regular(line) ==
    LET d == parse_maf_row(line)
    IN  /\ {"Chromosome", "Start_Position", "Tumor_Seq_Allele1"}
               \subseteq DOMAIN d
        /\ IsIntLiteral(d["Start_Position"])

\* C11: header handling.  When every line of the two files is a header or a
\* regular record, wherever and however often the header occurs, the run
\* does not fail, writes no header, and writes what it writes for the same
\* files without their headers.
C11_HeaderHarmless ==
    (\A l \in InputLines : IsHeader(l) \/ Regular(l)) =>
        /\ ~Aborted
        /\ Finished =>
              /\ \A l \in Range(output_maf) : ~IsHeader(l)
              /\ output_maf = run_main(RecordsA, RecordsB, is_merging)

\* C12: a non-numeric position is fatal.  A run whose input holds a record
\* (not a header) with a Start_Position that is no integer never completes
\* normally.
C12_NonNumericFatal ==
    (\E l \in InputLines :
        /\ ~IsHeader(l)
        /\ "Start_Position" \in DOMAIN parse_maf_row(l)
        /\ ~IsIntLiteral(parse_maf_row(l)["Start_Position"]))
    => ~Finished

\* C13: a malformed record is not an error.  A line with fewer columns than
\* the key needs parses into a record that lacks the missing columns, and
\* no step of the run raises for a missing column.
C13_MalformedTolerated ==
    /\ \A l \in InputLines :
           \E n \in 1..Len(MAF_FIELDNAMES) :
               DOMAIN parse_maf_row(l) =
                   {MAF_FIELDNAMES[i] : i \in 1..n} \cup {"row"}
    /\ pc # "KeyError"

\* the place of a cursor in its file's records: the index of the row it
\* holds, one past the end when it is exhausted (files free of duplicates)
PosIn(recs, row_dict) ==
    IF row_dict = None THEN Len(recs) + 1
    ELSE CHOOSE i \in 1..Len(recs) : recs[i] = row_dict["row"]

Pos1 == PosIn(RecordsA, row_dict_1)
Pos2 == PosIn(RecordsB, row_dict_2)

BothLive == row_dict_1 # None /\ row_dict_2 # None

Key1 == Key(row_dict_1["row"])
Key2 == Key(row_dict_2["row"])

\* C14: laggard-emission rule.  At every loop step of a merge run whose two
\* current keys differ, the line written is the current record of the side
\* with the smaller key, that side's cursor moves on by one record and the
\* other cursor stays.
C14_LaggardRule ==
    [][ (pc = "loop" /\ is_merging /\ BothLive /\ Key1 # Key2) =>
            IF KeyLess(Key1, Key2)
            THEN /\ output_maf' = Append(output_maf, row_dict_1["row"])
                 /\ PosIn(RecordsA, row_dict_1') = Pos1 + 1
                 /\ row_dict_2' = row_dict_2 /\ maf_rows_2' = maf_rows_2
            ELSE /\ output_maf' = Append(output_maf, row_dict_2["row"])
                 /\ PosIn(RecordsB, row_dict_2') = Pos2 + 1
                 /\ row_dict_1' = row_dict_1 /\ maf_rows_1' = maf_rows_1
      ]_vars

IsSuffix(s, t) ==
    Len(s) <= Len(t) /\ SubSeq(t, Len(t) - Len(s) + 1, Len(t)) = s

\* the records from the one a live cursor holds to the end of its file are
\* all in the output: those behind the held one close the output, each once,
\* and the held one stands before them
Drained(recs, pos) ==
    LET rest == SubSeq(recs, pos + 1, Len(recs))
    IN  /\ IsSuffix(rest, output_maf)
        /\ \A l \in Range(rest) : Count(output_maf, l) = 1
        /\ recs[pos] \in
               Range(SubSeq(output_maf, 1, Len(output_maf) - Len(rest)))

\* C15: drain phase.  When a merge run whose loop ended with exactly one
\* cursor exhausted has finished, the record that the live cursor held and
\* every record behind it have been written, in order.
C15_DrainWritesRest ==
    (Finished /\ is_merging) =>
        /\ (row_dict_1 = None /\ row_dict_2 # None) => Drained(RecordsB, Pos2)
        /\ (row_dict_1 # None /\ row_dict_2 = None) => Drained(RecordsA, Pos1)

\* C16: equal-key step.  At every loop step, in both modes, whose two
\* current keys are equal, exactly one line is written, it is side 1's raw
\* line, and both cursors move on by exactly one record.
C16_EqualStep ==
    [][ (pc = "loop" /\ BothLive /\ Key1 = Key2) =>
            /\ output_maf' = Append(output_maf, RecordsA[Pos1])
            /\ PosIn(RecordsA, row_dict_1') = Pos1 + 1
            /\ PosIn(RecordsB, row_dict_2') = Pos2 + 1
      ]_vars

\* C16 witness: an equal-key step has just written side 1's line where
\* side 2 spells the record differently outside the key
C16_Witness ==
    /\ pc = "loop"
    /\ output_maf # <<>>
    /\ LET l == output_maf[Len(output_maf)]
       IN  /\ l \in Range(RecordsA)
           /\ l \notin Range(RecordsB)
           /\ Key(l) \in Keys(RecordsB)
    /\ Pos1 > 1 /\ Pos2 > 1

\* C17: intersect emits only on equality.  In an intersect run a line is
\* written only by a loop step with both cursors live and equal keys, and a
\* run with an empty side writes nothing.
C17_IntersectEmitsOnEqual ==
    [][ ~is_merging =>
            /\ (output_maf' # output_maf) =>
                   (pc = "loop" /\ BothLive /\ Key1 = Key2)
            /\ (RecordsA = <<>> \/ RecordsB = <<>>) => output_maf' = <<>>
      ]_vars

\* C17 witness: a finished intersect run that wrote a line, passed over
\* records of both files and stopped with records of one file unread
C17_Witness ==
    /\ Finished /\ ~is_merging
    /\ Len(output_maf) >= 1
    /\ Len(output_maf) < Len(RecordsA)
    /\ Len(output_maf) < Len(RecordsB)
    /\ (gen_next(maf_rows_1) # None \/ gen_next(maf_rows_2) # None)

\* the records a cursor has still to give: the one it holds and those its
\* generator has not yielded
Remaining(row_dict, rows) ==
    Len(gen_all(rows)) + (IF row_dict = None THEN 0 ELSE 1)

\* C18: termination.  Every loop step moves at least one cursor forward and
\* none backwards; an intersect run leaves the loop for the end as soon as a
\* cursor is exhausted; a finished merge run has exhausted both generators;
\* and once in the loop every run reaches the finished state.
C18_Terminates ==
    /\ [][ (pc = "loop") =>
               IF BothLive
               THEN /\ Remaining(row_dict_1', maf_rows_1')
                         <= Remaining(row_dict_1, maf_rows_1)
                    /\ Remaining(row_dict_2', maf_rows_2')
                         <= Remaining(row_dict_2, maf_rows_2)
                    /\ Remaining(row_dict_1', maf_rows_1')
                         + Remaining(row_dict_2', maf_rows_2')
                         < Remaining(row_dict_1, maf_rows_1)
                             + Remaining(row_dict_2, maf_rows_2)
               ELSE ~is_merging => (pc' = "close" /\ output_maf' = output_maf)
         ]_vars
    /\ []((Finished /\ is_merging) =>
              /\ ~BothLive
              /\ gen_next(maf_rows_1) = None
              /\ gen_next(maf_rows_2) = None)
    /\ (pc = "loop") ~> Finished

\* C18 witness: a finished merge run over two files of at least two records
\* that had to drain, and whose loop took several steps
C18_Witness ==
    /\ Finished /\ is_merging
    /\ Len(RecordsA) >= 2 /\ Len(RecordsB) >= 2
    /\ Len(output_maf) >= 3
    /\ (row_dict_1 # None \/ row_dict_2 # None)

RECURSIVE IsSubseq(_, _)
IsSubseq(s, t) ==
    IF s = <<>> THEN TRUE
    ELSE IF t = <<>> THEN FALSE
    ELSE IF Head(s) = Head(t) THEN IsSubseq(Tail(s), Tail(t))
    ELSE IsSubseq(s, Tail(t))

Last(s) == s[Len(s)]

\* the pairs of current rows the loop has still to see, from the current one
CursorsAhead ==
    cursor_trace(row_dict_1, maf_rows_1, row_dict_2, maf_rows_2)

\* C19: the mode flag changes what is written, never how the cursors move.
\* In either mode the loop starts with the whole cursor sequence the two
\* files determine ahead of it, every step moves on to its next pair, and
\* the lines of the intersect run are a subsequence of the lines of the
\* merge run on the same files.
C19_ModeOnlyAffectsOutput ==
    /\ [][ /\ (pc = "first" /\ pc' = "loop") =>
                  cursor_trace(row_dict_1', maf_rows_1', row_dict_2', maf_rows_2')
                      = run_cursors(input_maf_1, input_maf_2)
           /\ (pc = "loop" /\ pc' = "loop") =>
                  cursor_trace(row_dict_1', maf_rows_1', row_dict_2', maf_rows_2')
                      = Tail(CursorsAhead)
         ]_vars
    /\ [](Finished =>
             IF is_merging
             THEN IsSubseq(run_main(input_maf_1, input_maf_2, FALSE),
                           output_maf)
             ELSE IsSubseq(output_maf,
                           run_main(input_maf_1, input_maf_2, TRUE)))

\* C19 witness: a finished merge run that wrote more than the intersect run
\* on the same files, which wrote something, after a step on two rows that
\* differ only in the allele
C19_Witness ==
    /\ Finished /\ is_merging
    /\ run_main(input_maf_1, input_maf_2, FALSE) # <<>>
    /\ Len(run_main(input_maf_1, input_maf_2, FALSE)) < Len(output_maf)
    /\ \E a \in Range(RecordsA), b \in Range(RecordsB) :
           /\ Key(a)[1] = Key(b)[1] /\ Key(a)[2] = Key(b)[2]
           /\ StrLess(Key(a)[3], Key(b)[3])

\* C20: merge is symmetric on keys.  The keys written by a merge run equal
\* the keys written by the merge run on the two files swapped.
C20_MergeSymmetric ==
    (Finished /\ is_merging) =>
        Keys(output_maf) = Keys(run_main(input_maf_2, input_maf_1, TRUE))

====
